---- MODULE Spec2Model ----
(***************************************************************************)
(* A model of the typing trainer of src/typer.py (entry point main) and of *)
(* its later rewrite src/typer/typer.py (entry point run).  Characters are *)
(* code points, strings are sequences of code points, bytes are integers.  *)
(* Time is counted in whole seconds.  Rounded metrics are kept in tenths.  *)
(***************************************************************************)
EXTENDS Integers, Sequences, FiniteSets, TLC

\* ---------------------------------------------------------------- bounds
\* main(num_words, ...) is called with num_words in 1..MaxNumWords.
MaxNumWords == 2
\* At most MaxErrorKeys mistyped keystrokes are delivered in one session.
MaxErrorKeys == 2
\* The elapsed-time accumulator is followed up to MaxTime seconds.
MaxTime == 2

\* ------------------------------------------------------ program constants
\* parse_num_words_arg: 5 <= num_words <= 100.
MinNumWordsArg == 5
MaxNumWordsArg == 100
\* parse_max_word_length_arg: 1 <= max_word_length <= 100.
MinWordLengthArg == 1
MaxWordLengthArg == 100
\* codes['back'] = '\x7f'
back == 127
\* Class attribute defaults of Sentence.
DefaultWidth == 100
DefaultHeight == 15
\* The divisor of raw words per minute (characters per word) and the
\* seconds of a minute.
CharsPerWord == 5
SecondsPerMinute == 60

\* ------------------------------------------------------------ characters
\* string.ascii_letters
ascii_letters == (65..90) \cup (97..122)

\* string.printable: digits, letters, punctuation, and " \t\n\r\x0b\x0c".
printable == (32..126) \cup (9..13)

\* The characters textwrap treats as whitespace.
whitespace == {9, 10, 11, 12, 13, 32}

\* str.lower on one ASCII character.
Lower(c) == IF c \in 65..90 THEN c + 32 ELSE c

\* word.lower()
LowerWord(w) == [i \in 1..Len(w) |-> Lower(w[i])]

Range(s) == {s[i] : i \in 1..Len(s)}

RECURSIVE Flatten(_)
Flatten(ss) == IF ss = <<>> THEN <<>> ELSE Head(ss) \o Flatten(Tail(ss))

\* bytes.decode("utf-8", errors="ignore") on sequences made of one-byte and
\* two-byte code units: a byte below 128 is itself, a lead byte 0xC2..0xDF
\* followed by a continuation byte 0x80..0xBF is one character, and any
\* other byte is invalid and dropped.
RECURSIVE decode(_)
decode(bs) ==
    IF bs = <<>> THEN <<>>
    ELSE IF bs[1] < 128 THEN <<bs[1]>> \o decode(Tail(bs))
    ELSE IF bs[1] \in 194..223 /\ Len(bs) >= 2 /\ bs[2] \in 128..191
         THEN <<(bs[1] - 192) * 64 + (bs[2] - 128)>> \o decode(Tail(Tail(bs)))
    ELSE decode(Tail(bs))

\* ------------------------------------------------------------ word source
\* /usr/share/dict/words with the lines "A", "it's", "ab".
DictLines ==
    [exists |-> TRUE, lines |-> << <<65>>, <<105, 116, 39, 115>>, <<97, 98>> >>]
\* A dictionary none of whose lines is made of letters only: "it's".
DictNoLetters == [exists |-> TRUE, lines |-> << <<105, 116, 39, 115>> >>]
\* The dictionary file does not exist.
DictMissing == [exists |-> FALSE, lines |-> <<>>]
Dictionaries == {DictMissing, DictNoLetters, DictLines}

\* The arguments main is called with.
Args == [num_words : 1..MaxNumWords, max_word_length : {1}]

\* The list comprehension of usable_words (src/typer.py line 38).
RECURSIVE usable_words(_, _)
usable_words(lines, max_word_length) ==
    IF lines = <<>> THEN <<>>
    ELSE LET word == Head(lines)
             rest == usable_words(Tail(lines), max_word_length)
         IN IF Len(word) <= max_word_length /\ Range(word) \ ascii_letters = {}
            THEN <<LowerWord(word)>> \o rest
            ELSE rest

\* ' '.join(words)
RECURSIVE join(_)
join(ws) ==
    IF ws = <<>> THEN <<>>
    ELSE IF Len(ws) = 1 THEN ws[1]
    ELSE ws[1] \o <<32>> \o join(Tail(ws))

\* random.choices(pool, k=num_words): every list of num_words pool entries.
choices(pool, k) == [1..k -> Range(pool)]

\* ------------------------------------------------------------- textwrap
\* TextWrapper._munge_whitespace with expand_tabs=False and the default
\* replace_whitespace=True: every whitespace character becomes a space.
munge_whitespace(text) ==
    [i \in 1..Len(text) |-> IF text[i] \in whitespace THEN 32 ELSE text[i]]

\* The length of the leading run of text that is all spaces or all
\* non-spaces.
RunLen(text) ==
    CHOOSE n \in 1..Len(text) :
        /\ \A i \in 1..n : (text[i] = 32) = (text[1] = 32)
        /\ n = Len(text) \/ (text[n + 1] = 32) # (text[1] = 32)

\* TextWrapper._split for texts without hyphens or dashes: maximal runs of
\* whitespace and maximal runs of other characters.
RECURSIVE split(_)
split(text) ==
    IF text = <<>> THEN <<>>
    ELSE LET n == RunLen(text)
         IN <<SubSeq(text, 1, n)>> \o split(SubSeq(text, n + 1, Len(text)))

\* How many leading chunks fit on the current line (the inner while loop
\* of TextWrapper._wrap_chunks).
RECURSIVE Fits(_, _, _)
Fits(chunks, width, cur_len) ==
    IF chunks = <<>> \/ cur_len + Len(chunks[1]) > width THEN 0
    ELSE 1 + Fits(Tail(chunks), width, cur_len + Len(chunks[1]))

\* Mutant of wrap_chunks: drop_whitespace is left at its default, so that
\* the whitespace that would start a line after the first is dropped.
RECURSIVE wrap_chunks_dropping(_, _)
wrap_chunks_dropping(chunks, width) ==
    IF chunks = <<>> THEN <<>>
    ELSE LET k == Fits(chunks, width, 0)
             cur == Flatten(SubSeq(chunks, 1, k))
             rest == SubSeq(chunks, k + 1, Len(chunks))
             long == rest # <<>> /\ Len(rest[1]) > width
             space_left == width - Len(cur)
             line == IF long THEN cur \o SubSeq(rest[1], 1, space_left) ELSE cur
             rest2 == IF long
                      THEN <<SubSeq(rest[1], space_left + 1, Len(rest[1]))>>
                           \o Tail(rest)
                      ELSE rest
             rest3 == IF rest2 # <<>> /\ rest2[1][1] = 32 THEN Tail(rest2) ELSE rest2
         IN <<line>> \o wrap_chunks_dropping(rest3, width)

\* TextWrapper._wrap_chunks with drop_whitespace=False, the default
\* break_long_words=True and no indent, for width >= 1.
RECURSIVE wrap_chunks(_, _)
wrap_chunks(chunks, width) ==
    IF chunks = <<>> THEN <<>>
    ELSE LET k == Fits(chunks, width, 0)
             cur == Flatten(SubSeq(chunks, 1, k))
             rest == SubSeq(chunks, k + 1, Len(chunks))
             long == rest # <<>> /\ Len(rest[1]) > width
             space_left == width - Len(cur)
             line == IF long THEN cur \o SubSeq(rest[1], 1, space_left) ELSE cur
             rest2 == IF long
                      THEN <<SubSeq(rest[1], space_left + 1, Len(rest[1]))>>
                           \o Tail(rest)
                      ELSE rest
         IN <<line>> \o wrap_chunks(rest2, width)

\* textwrap.wrap(text, width=width, expand_tabs=False, drop_whitespace=False)
wrap(text, width) == wrap_chunks(split(munge_whitespace(text)), width)

\* ------------------------------------------------------------ environment
\* os.get_terminal_size(): the sizes the terminal takes.
TermSizes == {[columns |-> 5, lines |-> 3], [columns |-> 10, lines |-> 5]}

\* What one os.read(stdin_fd, 80) returns: "a", " ", backspace, an escape
\* sequence (cursor up), a lone invalid byte, an invalid byte before "a",
\* the two bytes of "é", two pasted characters "a ", and nothing.
ReadInputs ==
    { <<97>>, <<32>>, <<back>>, <<27, 91, 65>>, <<255>>, <<255, 97>>,
      <<195, 169>>, <<97, 32>>, <<>> }

\* The seconds one blocking read may take.
Delays == {0, 1}

\* The two entry points: main of src/typer.py, run of src/typer/typer.py.
Variants == {"main", "run"}

\* No frame: the value of refresh's locals outside refresh, and of the
\* terminal before the first write.
None == [none |-> TRUE]

\* The value of ch while it holds nothing the loop will still use.
unread == <<0 - 1>>

VARIABLES
    variant,      \* which entry point runs
    pc,           \* the position of the main thread
    ret,          \* where the running refresh call returns to
    exc,          \* the exception that is propagating, or "none"
    term_size,    \* the terminal's current size
    term_mode,    \* "original" or "cbreak"
    old_settings, \* TRUE once termios.tcgetattr has returned
    restores,     \* how many times termios.tcsetattr(old_settings) has run
    handler,      \* TRUE once the SIGWINCH handler is installed
    _remain, _success, _errors, _len,
    _width, _height, _lines, _tmp_lines, _pad, _cover,
    count_raw, total_time,
    output_data, clear_data, \* the locals of the main thread's refresh call
    screen,       \* the last sys.stdout.write of refresh, or the clear print
    printed,      \* the messages printed so far
    metrics,      \* the metrics printed, or None
    ch,           \* the loop's local ch, from its read to the next loop test
    target,       \* history: the text drawn at construction
    keys,         \* history: what the reads of the session have returned
    undo,         \* history: the session before each error still pending
    sigint,       \* history: where the interrupts so far were delivered
    rows          \* how many rows of the terminal, from the top, hold text

session == <<_remain, _success, _errors, _len>>
renderer == <<_width, _height, _lines, _tmp_lines, _pad, _cover>>
counters == <<count_raw, total_time>>
locals == <<output_data, clear_data>>
terminal == <<term_mode, old_settings, restores, handler>>
history == <<target, keys>>
traces == <<undo, sigint, rows>>
vars == <<variant, pc, ret, exc, term_size, terminal, session, renderer,
          counters, locals, screen, printed, metrics, ch, history, traces>>

\* ----------------------------------------------------------- Sentence
\* Sentence.__bool__
bool == _remain # <<>>

\* Sentence.head
head == _remain[1]

\* Sentence.errors
errors == _errors # <<>>

\* Sentence.__repr__ as a value: the wrapped lines, the margin put before
\* each, and the two lengths that decide the colours and the underline.
\* The escape codes are a function of these.
repr(width, pad) ==
    [ lines |-> wrap(_success \o _errors \o _remain, width),
      pad |-> pad,
      success |-> Len(_success),
      errors |-> Len(_errors) ]

\* Mutant of underline: the pending errors are not looked at.
underline_next(success_len, errors_len) == success_len + errors_len

\* underline = success_errors - 1 if self.errors else success_errors
\* (src/typer.py line 60), counted from 0.
underline(success_len, errors_len) ==
    IF errors_len > 0 THEN success_len + errors_len - 1
    ELSE success_len + errors_len

\* The loop of __repr__ over the n characters of the wrapped lines from the
\* running index count on (src/typer.py lines 63-71), `colour` being the
\* colour in force: the alert colour starts at index len(_success) when
\* there are errors, codes['color_end'] is written at index success_errors,
\* and the character at index underline is written inside
\* codes['underline'], whose closing ESC[0m ends the colour in force too.
\* The result gives, for each character, the colour and the underline it
\* is shown with.
RECURSIVE paint(_, _, _, _, _)
paint(n, count, colour, success_len, errors_len) ==
    IF count >= n THEN <<>>
    ELSE LET shown == IF count = success_len /\ errors_len > 0 THEN "alert"
                      ELSE IF count = success_len + errors_len THEN "none"
                      ELSE colour
             under == count = underline(success_len, errors_len)
         IN <<[colour |-> shown, underline |-> under]>>
            \o paint(n, count + 1, IF under THEN "none" ELSE shown,
                     success_len, errors_len)

\* The styles of the characters of a frame, the first character first:
\* final starts with the muted colour (src/typer.py line 61).
styles(frame) ==
    paint(Len(Flatten(frame.lines)), 0, "muted", frame.success, frame.errors)

\* The value __repr__ leaves in self._tmp_lines: 2 plus one per line.
tmp_lines(frame) == 2 + Len(frame.lines)

\* Mutant of width_of: the whole width of the terminal is used.
width_of_columns(size) == size.columns

\* int(term_size.columns * 0.8)
width_of(size) == (size.columns * 8) \div 10

\* int((term_size.columns * 0.2) // 2)
pad_of(size) == ((size.columns * 2) \div 10) \div 2

\* Mutant of clear_of: the covers are written whatever the height.
clear_of_covers(lines, height, cover) ==
    [kind |-> "cover", lines |-> lines, cover |-> cover]

\* refresh's choice of clear_data (src/typer.py lines 112-115).
clear_of(lines, height, cover) ==
    IF lines < height
    THEN [kind |-> "cover", lines |-> lines, cover |-> cover]
    ELSE [kind |-> "clear", lines |-> 0, cover |-> 0]

\* Mutant of success: the head is copied to completed and left in remaining.
success_keeps_head ==
    /\ _success' = Append(_success, head)
    /\ UNCHANGED <<_remain, _errors, _len, undo>>

\* Sentence.success
success ==
    /\ _success' = Append(_success, head)
    /\ _remain' = Tail(_remain)
    /\ UNCHANGED <<_errors, _len, undo>>

\* Mutant of pop_error: list.pop(0), the oldest pending error is removed.
pop_error_oldest ==
    /\ _errors' = Tail(_errors)
    /\ undo' = SubSeq(undo, 1, Len(undo) - 1)
    /\ UNCHANGED <<_remain, _success, _len>>

\* Sentence.pop_error (list.pop() of a non-empty list).  The session noted
\* by the append_error this call takes back is dropped from undo.
pop_error ==
    /\ _errors' = SubSeq(_errors, 1, Len(_errors) - 1)
    /\ undo' = SubSeq(undo, 1, Len(undo) - 1)
    /\ UNCHANGED <<_remain, _success, _len>>

\* Mutant of append_error: the mistyped character also uses up the head of
\* remaining.
append_error_consumes(val) ==
    /\ _errors' = Append(_errors, val)
    /\ _remain' = Tail(_remain)
    /\ undo' = Append(undo, <<_remain, _success, _errors>>)
    /\ UNCHANGED <<_success, _len>>

\* Sentence.append_error.  The session as it is before the call is noted
\* in undo.
append_error(val) ==
    /\ _errors' = Append(_errors, val)
    /\ undo' = Append(undo, <<_remain, _success, _errors>>)
    /\ UNCHANGED <<_remain, _success, _len>>

\* Sentence.refresh_dimensions, after its print of codes['clear'].
refresh_dimensions(size) ==
    /\ _height' = size.lines
    /\ _width' = width_of(size)
    /\ _pad' = pad_of(size)
    /\ _cover' = pad_of(size) + width_of(size)

\* The rows of the terminal that hold text once refresh has written
\* clear_data + codes['cursor_start'] + output_data on a terminal whose top
\* `held` rows held text: codes['clear'] blanks them all, the covers blank
\* the top clear.lines rows, and the frame fills its own rows from the top.
written_rows(held, clear, frame) ==
    LET left == IF clear.kind = "clear" \/ held <= clear.lines THEN 0 ELSE held
    IN IF left > tmp_lines(frame) THEN left ELSE tmp_lines(frame)

\* What print(codes['clear']) leaves as the last write.
ClearPrint == [clear_data |-> clear_of(0, 0, 0), output_data |-> None]

\* ------------------------------------------------------------ exceptions
RefreshPcs == {"refresh", "refresh_clear", "refresh_write", "refresh_store"}

\* The positions inside the try block (src/typer.py lines 134-158).
TryPcs == {"Sentence", "setcbreak", "signal", "while", "read", "metrics"}
              \cup RefreshPcs

\* Mutant of propagate: the except clause names SystemExit only, so that a
\* KeyboardInterrupt is handled like any other exception.
propagate_uncaught(e) ==
    /\ pc' = IF pc \in TryPcs
             THEN IF e = "SystemExit" THEN "except"
                  ELSE IF variant = "run" /\ e # "KeyboardInterrupt"
                       THEN "except_Exception"
                  ELSE "finally"
             ELSE IF pc \in {"except", "except_Exception"} THEN "finally"
             ELSE "done"
    /\ exc' = IF pc \in TryPcs /\ (e = "SystemExit"
                                    \/ (variant = "run" /\ e # "KeyboardInterrupt"))
              THEN "none"
              ELSE e
    /\ ret' = "none"
    /\ output_data' = None
    /\ clear_data' = None
    /\ ch' = unread

\* Where an exception raised at the current position takes the main thread:
\* the try statement of main (src/typer.py lines 133, 159-163) and of run
\* (src/typer/typer.py lines 141, 171-180).  Outside it ("tcgetattr", the
\* finally clause) the exception ends the function.
propagate(e) ==
    /\ pc' = IF pc \in TryPcs
             THEN IF e \in {"KeyboardInterrupt", "SystemExit"} THEN "except"
                  ELSE IF variant = "run" THEN "except_Exception"
                  ELSE "finally"
             ELSE IF pc \in {"except", "except_Exception"} THEN "finally"
             ELSE "done"
    /\ exc' = IF pc \in TryPcs /\ (e \in {"KeyboardInterrupt", "SystemExit"}
                                    \/ variant = "run")
              THEN "none"
              ELSE e
    /\ ret' = "none"
    /\ output_data' = None
    /\ clear_data' = None
    /\ ch' = unread

\* --------------------------------------------------------------- metrics
\* num / den rounded to a whole number.  The quotient is a float: a value
\* exactly half way between two whole numbers may be stored just above or
\* just below the tie, so that either neighbour can be the result.
round_div(num, den) ==
    LET q == num \div den
        r == num % den
    IN IF 2 * r < den THEN {q}
       ELSE IF 2 * r > den THEN {q + 1}
       ELSE {q, q + 1}

\* round(num / den, 1) in tenths.
round1(num, den) == round_div(10 * num, den)

\* rwpm := round(count_raw / 5 / total_time, 1) after total_time /= 60
raw_wpm(count, seconds) ==
    round1(count * SecondsPerMinute, CharsPerWord * seconds)

\* Mutant of accuracy: the ratio is taken the other way round.
accuracy_inverted(len, count) == round1(count * 100, len)

\* acc := round(len(sentence) / count_raw * 100, 1)
accuracy(len, count) == round1(len * 100, count)

\* round(rwpm * acc / 100, 1), from rwpm and acc in tenths
adjusted_wpm(rwpm, acc) == round_div(rwpm * acc, 10 * 100)

\* ------------------------------------------------------------------ Init
Init ==
    /\ variant \in Variants
    /\ pc = "tcgetattr"
    /\ ret = "none"
    /\ exc = "none"
    /\ term_size \in TermSizes
    /\ term_mode = "original"
    /\ old_settings = FALSE
    /\ restores = 0
    /\ handler = FALSE
    /\ _remain = <<>>
    /\ _success = <<>>
    /\ _errors = <<>>
    /\ _len = 0
    /\ _width = DefaultWidth
    /\ _height = DefaultHeight
    /\ _lines = 0
    /\ _tmp_lines = 0
    /\ _pad = 1
    /\ _cover = 1
    /\ count_raw = 0
    /\ total_time = 0
    /\ output_data = None
    /\ clear_data = None
    /\ screen = None
    /\ printed = {}
    /\ metrics = None
    /\ ch = unread
    /\ target = <<>>
    /\ keys = "none"
    /\ undo = <<>>
    /\ sigint = "none"
    /\ rows = 0

\* ------------------------------------------------------- the main thread
\* old_settings = termios.tcgetattr(stdin_fd) returns and control enters
\* the try statement: the interpreter handles no signal between the
\* assignment and the entry of the try block.
tcgetattr ==
    /\ pc = "tcgetattr"
    /\ old_settings' = TRUE
    /\ pc' = "Sentence"
    /\ UNCHANGED <<ch, history, traces, variant, ret, exc, term_size, term_mode, restores, handler,
                   session, renderer, counters, locals, screen, printed,
                   metrics>>

\* termios.tcgetattr raises termios.error: the message, then exit(0)
\* outside the try statement.
tcgetattr_error ==
    /\ pc = "tcgetattr"
    /\ printed' = printed \cup {"This terminal is not supported"}
    /\ propagate("SystemExit")
    /\ UNCHANGED <<history, traces, variant, term_size, terminal, session, renderer, counters,
                   screen, metrics>>

\* sentence = Sentence(num_words, max_word_length) when the dictionary file
\* is missing: usable_words prints and calls exit(0).
Sentence_no_file ==
    /\ pc = "Sentence"
    /\ \E dict \in Dictionaries : ~dict.exists
    /\ printed' = printed \cup {"Could not find words to use"}
    /\ propagate("SystemExit")
    /\ UNCHANGED <<history, traces, variant, term_size, terminal, session, renderer, counters,
                   screen, metrics>>

\* sentence = Sentence(num_words, max_word_length) when no word is usable:
\* random.choices raises IndexError on an empty population.
Sentence_no_words ==
    /\ pc = "Sentence"
    /\ \E dict \in Dictionaries, args \in Args :
          /\ dict.exists
          /\ usable_words(dict.lines, args.max_word_length) = <<>>
    /\ propagate("IndexError")
    /\ UNCHANGED <<history, traces, variant, term_size, terminal, session, renderer, counters,
                   screen, printed, metrics>>

\* sentence = Sentence(num_words, max_word_length): Sentence.__init__ with
\* its call of refresh_dimensions.
Sentence ==
    /\ pc = "Sentence"
    /\ \E dict \in Dictionaries, args \in Args :
          LET pool == usable_words(dict.lines, args.max_word_length)
          IN /\ dict.exists
             /\ pool # <<>>
             /\ \E words \in choices(pool, args.num_words) :
                   /\ _remain' = join(words)
                   /\ _len' = Len(join(words))
                   /\ target' = join(words)
    /\ _success' = <<>>
    /\ _errors' = <<>>
    /\ screen' = ClearPrint
    /\ rows' = 0
    /\ refresh_dimensions(term_size)
    /\ pc' = "setcbreak"
    /\ UNCHANGED <<ch, keys, undo, sigint, variant, ret, exc, term_size, terminal, _lines, _tmp_lines,
                   counters, locals, printed, metrics>>

\* tty.setcbreak(stdin_fd); print(codes['cursor_invisible']); then the call
\* refresh(sentence) of line 137.
setcbreak ==
    /\ pc = "setcbreak"
    /\ term_mode' = "cbreak"
    /\ pc' = "refresh"
    /\ ret' = "signal"
    /\ UNCHANGED <<ch, history, traces, variant, exc, term_size, old_settings, restores, handler,
                   session, renderer, counters, locals, screen, printed,
                   metrics>>

\* refresh: output_data = repr(cls)
refresh_repr ==
    /\ pc = "refresh"
    /\ output_data' = repr(_width, _pad)
    /\ _tmp_lines' = tmp_lines(repr(_width, _pad))
    /\ pc' = "refresh_clear"
    /\ UNCHANGED <<ch, history, traces, variant, ret, exc, term_size, terminal, session, _width,
                   _height, _lines, _pad, _cover, counters, clear_data, screen,
                   printed, metrics>>

\* refresh: the choice of clear_data
refresh_clear ==
    /\ pc = "refresh_clear"
    /\ clear_data' = clear_of(_lines, _height, _cover)
    /\ pc' = "refresh_write"
    /\ UNCHANGED <<ch, history, traces, variant, ret, exc, term_size, terminal, session, renderer,
                   counters, output_data, screen, printed, metrics>>

\* refresh: sys.stdout.write(...); sys.stdout.flush()
refresh_write ==
    /\ pc = "refresh_write"
    /\ screen' = [clear_data |-> clear_data, output_data |-> output_data]
    /\ rows' = written_rows(rows, clear_data, output_data)
    /\ pc' = "refresh_store"
    /\ UNCHANGED <<ch, history, undo, sigint, variant, ret, exc, term_size, terminal, session, renderer,
                   counters, locals, printed, metrics>>

\* refresh: cls._lines = cls._tmp_lines, and the return to the caller
refresh_store ==
    /\ pc = "refresh_store"
    /\ _lines' = _tmp_lines
    /\ pc' = ret
    /\ ret' = "none"
    /\ output_data' = None
    /\ clear_data' = None
    /\ UNCHANGED <<ch, history, traces, variant, exc, term_size, terminal, session, _width, _height,
                   _tmp_lines, _pad, _cover, counters, screen, printed,
                   metrics>>

\* signal.signal(signal.SIGWINCH, ...); count_raw = total_time = 0
signal ==
    /\ pc = "signal"
    /\ handler' = TRUE
    /\ count_raw' = 0
    /\ total_time' = 0
    /\ pc' = "while"
    /\ UNCHANGED <<ch, history, traces, variant, ret, exc, term_size, term_mode, old_settings,
                   restores, session, renderer, locals, screen, printed,
                   metrics>>

\* while sentence:
while ==
    /\ pc = "while"
    /\ pc' = IF bool THEN "read" ELSE "metrics"
    /\ ch' = unread
    /\ UNCHANGED <<history, traces, variant, ret, exc, term_size, terminal, session, renderer,
                   counters, locals, screen, printed, metrics>>

\* Mutant of is_printable: a read of several characters counts by its first.
starts_printable(read_ch) == Len(read_ch) >= 1 /\ read_ch[1] \in printable

\* ch in printable: ch is one character of string.printable.
is_printable(read_ch) == Len(read_ch) = 1 /\ read_ch[1] \in printable

\* Mutant of timed: the wait counts from the second read on, whatever the
\* first read returned.
timed_after_first_read(dt) ==
    total_time' = total_time + (IF keys # "none" THEN dt ELSE 0)

\* total_time += (time.time() - t0) if count_raw else 0
timed(dt) == total_time' = total_time + (IF count_raw # 0 THEN dt ELSE 0)

\* Mutant of on_back: with no pending error, a backspace takes back the last
\* correct character.
on_back_takes_back ==
    /\ IF errors
       THEN pop_error /\ pc' = "refresh" /\ ret' = "while"
       ELSE IF _success # <<>>
            THEN /\ _remain' = <<_success[Len(_success)]>> \o _remain
                 /\ _success' = SubSeq(_success, 1, Len(_success) - 1)
                 /\ UNCHANGED <<_errors, _len, undo>>
                 /\ pc' = "refresh"
                 /\ ret' = "while"
            ELSE UNCHANGED <<session, undo>> /\ pc' = "while" /\ UNCHANGED ret
    /\ UNCHANGED count_raw

\* Mutant of on_back: the branch tests for the wrong code and a backspace
\* falls through to the loop test.
on_back_ignored ==
    /\ UNCHANGED <<session, undo, count_raw, ret>>
    /\ pc' = "while"

\* The backspace branch (src/typer.py lines 144-147).
on_back ==
    /\ IF errors
       THEN pop_error /\ pc' = "refresh" /\ ret' = "while"
       ELSE UNCHANGED <<session, undo>> /\ pc' = "while" /\ UNCHANGED ret
    /\ UNCHANGED count_raw

\* Mutant of on_printable: the pending errors are not looked at.
on_printable_head_only(c) ==
    /\ IF head # c THEN append_error(c) ELSE success
    /\ count_raw' = count_raw + 1
    /\ pc' = "refresh"
    /\ ret' = "while"

\* The printable branch (src/typer.py lines 148-154).
on_printable(c) ==
    /\ IF errors \/ head # c THEN append_error(c) ELSE success
    /\ count_raw' = count_raw + 1
    /\ pc' = "refresh"
    /\ ret' = "while"

\* Neither branch is taken: the loop goes back to its test.
on_other ==
    /\ UNCHANGED <<session, undo, count_raw, ret>>
    /\ pc' = "while"

\* One iteration of the loop body up to its refresh call: the read returns
\* the bytes b after dt seconds (src/typer.py lines 141-154).
read(b, dt) ==
    /\ pc = "read"
    /\ timed(dt)
    /\ total_time' <= MaxTime
    /\ ch' = decode(b)
    /\ IF decode(b) = <<back>> THEN on_back
       ELSE IF is_printable(decode(b))
            THEN /\ (errors \/ head # decode(b)[1])
                       => count_raw - Len(_success) < MaxErrorKeys
                 /\ on_printable(decode(b)[1])
       ELSE on_other
    /\ keys' = IF is_printable(decode(b)) \/ keys = "printable"
               THEN "printable"
               ELSE "unprintable"
    /\ UNCHANGED <<target, sigint, rows, variant, exc, term_size, terminal, renderer, locals, screen,
                   printed, metrics>>

Read == \E b \in ReadInputs, dt \in Delays : read(b, dt)

\* The three prints after the loop (src/typer.py lines 155-158): the
\* division by total_time raises ZeroDivisionError when no time was counted,
\* the division by count_raw when no keystroke was.
print_metrics ==
    /\ pc = "metrics"
    /\ IF total_time = 0 \/ count_raw = 0
       THEN /\ propagate("ZeroDivisionError")
            /\ UNCHANGED metrics
       ELSE /\ \E rwpm \in raw_wpm(count_raw, total_time),
                  acc \in accuracy(_len, count_raw) :
                  \E wpm \in adjusted_wpm(rwpm, acc) :
                     metrics' = [rwpm |-> rwpm, acc |-> acc, wpm |-> wpm]
            /\ pc' = "finally"
            /\ UNCHANGED <<ret, exc, locals, ch>>
    /\ UNCHANGED <<history, traces, variant, term_size, terminal, session, renderer, counters,
                   screen, printed>>

\* except (KeyboardInterrupt, SystemExit): print('\nExiting typer...')
except ==
    /\ pc = "except"
    /\ printed' = printed \cup {"Exiting typer..."}
    /\ pc' = "finally"
    /\ UNCHANGED <<ch, history, traces, variant, ret, exc, term_size, terminal, session, renderer,
                   counters, locals, screen, metrics>>

\* run only: except Exception as e: print(f'\nAn error occurred: {e}')
except_Exception ==
    /\ pc = "except_Exception"
    /\ printed' = printed \cup {"An error occurred"}
    /\ pc' = "finally"
    /\ UNCHANGED <<ch, history, traces, variant, ret, exc, term_size, terminal, session, renderer,
                   counters, locals, screen, metrics>>

\* finally: termios.tcsetattr(stdin_fd, termios.TCSADRAIN, old_settings)
tcsetattr ==
    /\ pc = "finally"
    /\ term_mode' = "original"
    /\ restores' = restores + 1
    /\ pc' = "cursor_visible"
    /\ UNCHANGED <<ch, history, traces, variant, ret, exc, term_size, old_settings, handler, session,
                   renderer, counters, locals, screen, printed, metrics>>

\* print(codes['cursor_visible']); the function ends, and an exception the
\* finally clause interrupted goes on propagating.
cursor_visible ==
    /\ pc = "cursor_visible"
    /\ pc' = "done"
    /\ UNCHANGED <<ch, history, traces, variant, ret, exc, term_size, terminal, session, renderer,
                   counters, locals, screen, printed, metrics>>

\* ----------------------------------------------------------- the signals
\* The main thread is in the loop of src/typer.py lines 140-154: at its
\* test, in its read, or in a refresh the loop body called.
in_loop == pc \in {"while", "read"} \/ (pc \in RefreshPcs /\ ret = "while")

\* The value of sigint once an interrupt is delivered now: "loop" for the
\* first interrupt if the loop is running, "other" for the first interrupt
\* elsewhere, "again" for every later one.
delivered ==
    IF sigint # "none" THEN "again" ELSE IF in_loop THEN "loop" ELSE "other"

\* SIGINT: Python raises KeyboardInterrupt in the main thread at its
\* current position.  At "finally" that is before termios.tcsetattr has
\* taken effect: between two instructions of the finally clause, or out of
\* the wait for the output to drain that TCSADRAIN asks for.
KeyboardInterrupt ==
    /\ pc # "done"
    /\ propagate("KeyboardInterrupt")
    /\ sigint' = delivered
    /\ UNCHANGED <<history, undo, rows, variant, term_size, terminal, session, renderer, counters,
                   screen, printed, metrics>>

\* os.read or sys.stdout.write fails.
OSError ==
    /\ pc \in {"read", "refresh_write"}
    /\ propagate("OSError")
    /\ UNCHANGED <<history, traces, variant, term_size, terminal, session, renderer, counters,
                   screen, printed, metrics>>

\* Mutant of resize: the handler also drops the pending errors.
resize_drops_errors(size) ==
    /\ handler
    /\ pc # "done"
    /\ term_size' = size
    /\ refresh_dimensions(size)
    /\ _errors' = <<>>
    /\ UNCHANGED <<ch, history, undo, sigint, variant, pc, ret, exc, terminal, _remain,
                   _success, _len, counters, locals, printed, metrics>>
    /\ LET frame == repr(width_of(size), pad_of(size))
           clear == clear_of(_lines, size.lines, pad_of(size) + width_of(size))
       IN /\ _tmp_lines' = tmp_lines(frame)
          /\ rows' = written_rows(0, clear, frame)
          /\ screen' = [clear_data |-> clear, output_data |-> frame]
          /\ _lines' = tmp_lines(frame)

\* SIGWINCH: the terminal takes the size `size` and the handler resize runs
\* to its end, between two steps of the main thread: refresh_dimensions,
\* then the whole of refresh.
resize(size) ==
    /\ handler
    /\ pc # "done"
    /\ term_size' = size
    /\ refresh_dimensions(size)
    /\ UNCHANGED <<ch, history, undo, sigint, variant, pc, ret, exc, terminal, session,
                   counters, locals, printed, metrics>>
    /\ LET frame == repr(width_of(size), pad_of(size))
           clear == clear_of(_lines, size.lines, pad_of(size) + width_of(size))
       IN /\ _tmp_lines' = tmp_lines(frame)
          /\ rows' = written_rows(0, clear, frame)
          /\ screen' = [clear_data |-> clear, output_data |-> frame]
          /\ _lines' = tmp_lines(frame)

Resize == \E size \in TermSizes : resize(size)

\* SIGWINCH whose handler is cut short by a KeyboardInterrupt raised inside
\* it: after refresh_dimensions (stage 1), after repr (stage 2) or after the
\* write (stage 3).  The exception propagates from the main thread's
\* current position.
resize_interrupted(size, stage) ==
    /\ handler
    /\ pc # "done"
    /\ term_size' = size
    /\ refresh_dimensions(size)
    /\ propagate("KeyboardInterrupt")
    /\ sigint' = delivered
    /\ UNCHANGED <<history, undo, variant, terminal, session, _lines, counters, printed,
                   metrics>>
    /\ LET frame == repr(width_of(size), pad_of(size))
           clear == clear_of(_lines, size.lines, pad_of(size) + width_of(size))
       IN /\ _tmp_lines' = IF stage >= 2 THEN tmp_lines(frame) ELSE _tmp_lines
          /\ screen' = IF stage >= 3
                       THEN [clear_data |-> clear, output_data |-> frame]
                       ELSE ClearPrint
          /\ rows' = IF stage >= 3 THEN written_rows(0, clear, frame) ELSE 0

ResizeInterrupted ==
    \E size \in TermSizes, stage \in 1..3 : resize_interrupted(size, stage)

\* ------------------------------------------------------------------ Next
Next ==
    \/ tcgetattr
    \/ tcgetattr_error
    \/ Sentence_no_file
    \/ Sentence_no_words
    \/ Sentence
    \/ setcbreak
    \/ refresh_repr
    \/ refresh_clear
    \/ refresh_write
    \/ refresh_store
    \/ signal
    \/ while
    \/ Read
    \/ print_metrics
    \/ except
    \/ except_Exception
    \/ tcsetattr
    \/ cursor_visible
    \/ KeyboardInterrupt
    \/ OSError
    \/ Resize
    \/ ResizeInterrupted

Spec == Init /\ [][Next]_vars

\* --------------------------------------------------------------- LiveSpec
\* The steps the interpreter takes on its own once a session is running,
\* after the frame of a repaint is built: the loop test and the last three
\* steps of refresh.
Runs == while \/ refresh_clear \/ refresh_write \/ refresh_store

\* The key the session is waiting for: the backspace while an error is
\* pending, otherwise the head of remaining, each read on its own.
GoodKey ==
    /\ pc = "read"
    /\ \E dt \in Delays :
          read(IF errors THEN <<back>> ELSE <<head>>, dt)

\* The sessions in which no interrupt arrives, no read or write fails and
\* the resize handler is not cut short.
NextLive ==
    \/ tcgetattr
    \/ tcgetattr_error
    \/ Sentence_no_file
    \/ Sentence_no_words
    \/ Sentence
    \/ setcbreak
    \/ refresh_repr
    \/ refresh_clear
    \/ refresh_write
    \/ refresh_store
    \/ signal
    \/ while
    \/ Read
    \/ print_metrics
    \/ except
    \/ except_Exception
    \/ tcsetattr
    \/ cursor_visible
    \/ Resize

\* The interpreter goes on running: a step of Runs that stays possible is
\* taken, and the main thread does not stay for ever at the first line of
\* refresh (only refresh_repr takes it from there, so this is weak
\* fairness of refresh_repr, stated by its effect).  The user, whatever
\* else is typed, again and again supplies the key the session is waiting
\* for.  (Only MaxErrorKeys mistyped keys are delivered in one session, so
\* from some point on every counted key is such a key.)
LiveSpec ==
    /\ Init
    /\ [][NextLive]_vars
    /\ WF_vars(Runs)
    /\ []<>(pc # "refresh")
    /\ SF_vars(GoodKey)

\* ------------------------------------------------------------ MetricsSpec
\* The target lengths the command line allows: num_words words of 1 to
\* max_word_length letters, joined by single spaces.
TargetLengths ==
    (MinNumWordsArg * MinWordLengthArg + MinNumWordsArg - 1)
        .. (MaxNumWordsArg * MaxWordLengthArg + MaxNumWordsArg - 1)

\* The inputs of the three prints after the loop: the target length, a raw
\* count of at least that many keystrokes and the seconds counted.  These
\* lines read nothing else; the other variables keep the values they have
\* before construction.
InitMetrics ==
    /\ variant \in Variants
    /\ pc = "metrics"
    /\ ret = "none"
    /\ exc = "none"
    /\ term_size \in {[columns |-> 10, lines |-> 5]}
    /\ term_mode = "cbreak"
    /\ old_settings = TRUE
    /\ restores = 0
    /\ handler = TRUE
    /\ _remain = <<>>
    /\ _success = <<>>
    /\ _errors = <<>>
    /\ _len \in TargetLengths
    /\ _width = DefaultWidth
    /\ _height = DefaultHeight
    /\ _lines = 0
    /\ _tmp_lines = 0
    /\ _pad = 1
    /\ _cover = 1
    /\ count_raw \in _len .. (_len + MaxErrorKeys)
    /\ total_time \in 0..MaxTime
    /\ output_data = None
    /\ clear_data = None
    /\ screen = None
    /\ printed = {}
    /\ metrics = None
    /\ ch = unread
    /\ target = <<>>
    /\ keys = "printable"
    /\ undo = <<>>
    /\ sigint = "none"
    /\ rows = 0

NextMetrics == print_metrics

MetricsSpec == InitMetrics /\ [][NextMetrics]_vars

\* --------------------------------------------------------------- ReprSpec
\* A dictionary with the words "a", "ab" and "abc".
ReprDict == [exists |-> TRUE, lines |-> << <<97>>, <<97, 98>>, <<97, 98, 99>> >>]

\* The texts Sentence.__init__ can draw from it: 1 to MaxNumWords words.
ReprTargets ==
    {join(words) : words \in UNION {choices(usable_words(ReprDict.lines, 3), k) :
                                      k \in 1..MaxNumWords}}

\* The pending errors: up to MaxErrorKeys characters among "a", " " and
\* the tab, all of them in string.printable.
ReprErrors == UNION {[1..k -> {97, 32, 9}] : k \in 0..MaxErrorKeys}

\* The terminal sizes: those of TermSizes and a narrower one.
ReprSizes == TermSizes \cup {[columns |-> 3, lines |-> 3]}

\* The inputs of __repr__ at the start of a refresh the loop called: a
\* target typed up to any point, with pending errors only while there is
\* text left, and the dimensions refresh_dimensions cached for the
\* terminal's size.  __repr__ reads nothing else; the other variables keep
\* the values they have before construction.
InitRepr ==
    /\ variant \in Variants
    /\ pc = "refresh"
    /\ ret = "while"
    /\ exc = "none"
    /\ term_size \in ReprSizes
    /\ term_mode = "cbreak"
    /\ old_settings = TRUE
    /\ restores = 0
    /\ handler = TRUE
    /\ target \in ReprTargets
    /\ \E k \in 0..Len(target) :
          /\ _success = SubSeq(target, 1, k)
          /\ _remain = SubSeq(target, k + 1, Len(target))
    /\ _errors \in IF _remain = <<>> THEN {<<>>} ELSE ReprErrors
    /\ _len = Len(target)
    /\ _width = width_of(term_size)
    /\ _height = term_size.lines
    /\ _pad = pad_of(term_size)
    /\ _cover = pad_of(term_size) + width_of(term_size)
    /\ _lines = 0
    /\ _tmp_lines = 0
    /\ count_raw = Len(_success) + Len(_errors)
    /\ total_time = 0
    /\ output_data = None
    /\ clear_data = None
    /\ screen = None
    /\ printed = {}
    /\ metrics = None
    /\ ch = unread
    /\ keys = "printable"
    /\ undo = [i \in 1..Len(_errors) |->
                  <<_remain, _success, SubSeq(_errors, 1, i - 1)>>]
    /\ sigint = "none"
    /\ rows = 0

NextRepr == refresh_repr

ReprSpec == InitRepr /\ [][NextRepr]_vars

\* ------------------------------------------------------------------ C1
\* The frames the model holds: the one refresh is about to write and the
\* one last written.
Frames ==
    {f \in {output_data} \cup (IF screen = None THEN {} ELSE {screen.output_data}) :
        f # None}

\* C1 as stated: in every reachable state len(completed) +
\* len(pending-errors) + len(remaining) equals the target length.
C1_Original == Len(_success) + Len(_errors) + Len(_remain) = _len

\* C1 amended: len(completed) + len(remaining) equals the target length in
\* every reachable state, so the three lengths add up to the target length
\* plus the number of pending errors, and every frame drawn holds that many
\* characters.
C1_Amended ==
    /\ Len(_success) + Len(_remain) = _len
    /\ Len(_success) + Len(_errors) + Len(_remain) = _len + Len(_errors)
    /\ \A f \in Frames : Len(Flatten(f.lines)) = _len + f.errors

\* Two pending errors after a correct character, drawn on the terminal.
C1_Witness ==
    /\ Len(_errors) = 2
    /\ Len(_success) >= 1
    /\ \E f \in Frames : f.errors = 2 /\ f.success >= 1

\* ------------------------------------------------------------------ C2
\* C2: a printable keystroke advances (moves the head of remaining to
\* completed) exactly when pending-errors is empty and the character is the
\* head of remaining; otherwise it is pushed onto pending-errors and
\* completed and remaining stay; either way the raw count grows by one.
C2_Printable ==
    [][\A b \in ReadInputs, dt \in Delays :
          (read(b, dt) /\ Len(decode(b)) = 1 /\ decode(b)[1] \in printable)
          => /\ count_raw' = count_raw + 1
             /\ IF _errors = <<>> /\ decode(b)[1] = _remain[1]
                THEN /\ _success' = Append(_success, decode(b)[1])
                     /\ _remain' = Tail(_remain)
                     /\ _errors' = _errors
                ELSE /\ _errors' = Append(_errors, decode(b)[1])
                     /\ _success' = _success
                     /\ _remain' = _remain]_vars

\* The required character was typed while an error was pending, and was
\* recorded as a second error.
C2_Witness ==
    /\ pc = "refresh"
    /\ is_printable(ch)
    /\ Len(_errors) >= 2
    /\ _remain # <<>>
    /\ _errors[Len(_errors)] = _remain[1]

\* ------------------------------------------------------------------ C3
\* C3: a backspace removes the last pending error when there is one and
\* otherwise changes nothing and repaints nothing; completed, remaining
\* and the raw count stay in both cases.
C3_Backspace ==
    [][\A b \in ReadInputs, dt \in Delays :
          (read(b, dt) /\ decode(b) = <<back>>)
          => /\ _success' = _success
             /\ _remain' = _remain
             /\ count_raw' = count_raw
             /\ IF _errors = <<>>
                THEN /\ _errors' = <<>>
                     /\ pc' = "while"
                     /\ UNCHANGED <<renderer, screen, locals, ret, exc>>
                ELSE /\ _errors' = SubSeq(_errors, 1, Len(_errors) - 1)
                     /\ pc' = "refresh"]_vars

\* A backspace has just removed the second of two pending errors, after a
\* correct character.
C3_Witness ==
    /\ pc = "refresh"
    /\ ch = <<back>>
    /\ Len(_errors) = 1
    /\ count_raw = Len(_success) + 2
    /\ Len(_success) >= 1

\* ------------------------------------------------------------------ C4
\* C4 as stated: the accuracy printed is at most 100 and is 100 exactly
\* when the raw count equals the target length.
C4_Original ==
    metrics # None
    => /\ metrics.acc <= 100 * 10
       /\ (metrics.acc = 100 * 10) <=> (count_raw = _len)

\* C4 amended: the accuracy printed is at most 100; it is 100 when the raw
\* count equals the target length; it is 100 only when the keystrokes beyond
\* the target length are at most one in 2000 of the raw count, and is 100
\* whenever they are fewer than that; so for a target shorter than 1999
\* characters it is 100 exactly when the raw count equals the target length.
C4_Amended ==
    metrics # None
    => /\ metrics.acc <= 100 * 10
       /\ count_raw = _len => metrics.acc = 100 * 10
       /\ metrics.acc = 100 * 10 => 2000 * (count_raw - _len) <= count_raw
       /\ 2000 * (count_raw - _len) < count_raw => metrics.acc = 100 * 10
       /\ _len < 1999 => ((metrics.acc = 100 * 10) <=> (count_raw = _len))

\* An accuracy of 100.0 printed for a session with a mistyped keystroke.
C4_Witness ==
    /\ metrics # None
    /\ metrics.acc = 100 * 10
    /\ count_raw > _len

\* ------------------------------------------------------------------ C5
\* C5: when the loop ends with no time counted or no keystroke counted, the
\* metrics step raises nothing and goes on to the restoration.
C5_NoDivisionByZero ==
    [][(print_metrics /\ (total_time = 0 \/ count_raw = 0))
          => (pc' = "finally" /\ exc' = "none")]_vars

\* ------------------------------------------------------------------ C6
\* C6: once the original settings have been read, the process ends with
\* the restoration executed exactly once and the terminal in its original
\* mode.
C6_RestoredOnce ==
    /\ restores <= 1
    /\ (pc = "done" /\ old_settings) => (restores = 1 /\ term_mode = "original")

\* ------------------------------------------------------------------ C7
\* C7: handling a resize leaves completed, pending-errors, remaining, the
\* raw count and the elapsed time as they are; a handler that runs to its
\* end also leaves the main thread where it is and writes a redraw of the
\* unchanged session at the new dimensions.
C7_ResizeFrame ==
    [][/\ UNCHANGED <<session, counters, target>> \/ ~(Resize \/ ResizeInterrupted)
       /\ Resize => /\ UNCHANGED <<pc, ret, exc, ch, locals, terminal,
                                   printed, metrics>>
                    /\ screen'.output_data.success = Len(_success)
                    /\ screen'.output_data.errors = Len(_errors)
                    /\ screen'.output_data.lines
                          = wrap(_success \o _errors \o _remain, _width')]_vars

\* The handler ran between two steps of a repaint that follows a mistyped
\* keystroke: the frame the main thread holds was built for another margin.
C7_Witness ==
    /\ pc \in {"refresh_clear", "refresh_write"}
    /\ output_data # None
    /\ output_data.pad # _pad
    /\ _errors # <<>>
    /\ count_raw > 0
    /\ total_time > 0

\* ------------------------------------------------------------------ C8
\* C8: the loop reads only while remaining is non-empty, leaves only when
\* remaining is empty, then with no pending error and completed equal to
\* the target, and the metrics step that follows prints the metrics.
C8_LoopExit ==
    [][/\ (pc = "while" /\ pc' = "read") => _remain # <<>>
       /\ (\A b \in ReadInputs, dt \in Delays : read(b, dt) => _remain # <<>>)
       /\ (pc = "while" /\ pc' = "metrics")
             => (_remain = <<>> /\ _errors = <<>> /\ _success = target)
       /\ print_metrics => (metrics = None /\ metrics' # None)]_vars

\* ------------------------------------------------------------------ C9
\* C9 as stated: only the first read of the session is left out of the
\* elapsed time; every later read adds its wait.
C9_Original ==
    [][\A b \in ReadInputs, dt \in Delays :
          read(b, dt)
          => total_time' = total_time + (IF keys = "none" THEN 0 ELSE dt)]_vars

\* C9 amended: every read up to and including the one that returns the first
\* printable character is left out of the elapsed time; every read after it
\* adds its wait, whatever it returns.
C9_Amended ==
    [][\A b \in ReadInputs, dt \in Delays :
          read(b, dt)
          => total_time' = total_time + (IF keys = "printable" THEN dt ELSE 0)]_vars

\* One printable keystroke so far, mistyped and since removed: the time
\* counted is that of reads that returned no printable character.
C9_Witness ==
    /\ count_raw = 1
    /\ _success = <<>>
    /\ _errors = <<>>
    /\ total_time > 0

C11_Inverse ==
    [][(pc = "read" /\ ch' = <<back>> /\ _errors # <<>>)
          => (/\ Len(undo) = Len(_errors)
              /\ <<_remain', _success', _errors'>> = undo[Len(undo)])]_vars

\* Two errors recorded after a correct character and both taken back: the
\* second backspace has just run.
C11_Witness ==
    /\ pc = "refresh"
    /\ ch = <<back>>
    /\ _errors = <<>>
    /\ undo = <<>>
    /\ _success # <<>>
    /\ count_raw >= Len(_success) + 2

\* ------------------------------------------------------------------ C12
\* C12: when the dictionary file is missing or no word of it is usable, the
\* failure is caught by a handler that reports it, no exception is left to
\* propagate, and no session has started: the terminal is in its original
\* mode, nothing has been read and no metric is printed.
C12_NoWordsAvailable ==
    [][(Sentence_no_file \/ Sentence_no_words)
          => (/\ exc' = "none"
              /\ pc' \in {"except", "except_Exception"}
              /\ term_mode' = "original"
              /\ keys' = "none"
              /\ metrics' = None)]_vars

\* ------------------------------------------------------------------ C13
\* C13: once an interrupt has been delivered while the loop was running
\* (at its test, in its read, in a repaint it called, or inside the resize
\* handler run from one of these), and no other interrupt has followed, the
\* interrupt is caught and nothing propagates, no metric is printed, the
\* exit message is printed before the finally clause starts, and past
\* termios.tcsetattr the terminal is in its original mode, restored once.
C13_Interrupted ==
    sigint = "loop"
    => /\ exc = "none"
       /\ metrics = None
       /\ pc \in {"except", "finally", "cursor_visible", "done"}
       /\ pc # "except" => "Exiting typer..." \in printed
       /\ pc \in {"cursor_visible", "done"}
             => (restores = 1 /\ term_mode = "original")

\* A session interrupted after a counted keystroke, with text still to
\* type, has run to its end.
C13_Witness ==
    /\ sigint = "loop"
    /\ pc = "done"
    /\ count_raw > 0
    /\ _remain # <<>>
    /\ restores = 1

\* ------------------------------------------------------------------ C14
\* The characters a frame shows, line after line, without the margins and
\* the escape codes.
shown_text(frame) == Flatten(frame.lines)

\* C14 as stated: the lines of every frame, put together again, are
\* character for character the string completed + pending-errors +
\* remaining the frame was rendered from.
C14_Original ==
    output_data # None
    => shown_text(output_data) = _success \o _errors \o _remain

\* C14 amended: the lines of every frame, put together again, have the
\* length of completed + pending-errors + remaining and show each of its
\* characters at its own index, except that a tab, line feed, vertical tab,
\* form feed or carriage return is shown as a space; no line is empty or
\* longer than the display width.
C14_Amended ==
    output_data # None
    => LET text == _success \o _errors \o _remain
           back_together == shown_text(output_data)
       IN /\ Len(back_together) = Len(text)
          /\ \A i \in 1..Len(text) :
                \/ back_together[i] = text[i]
                \/ text[i] \in {9, 10, 11, 12, 13} /\ back_together[i] = 32
          /\ \A i \in 1..Len(output_data.lines) :
                /\ Len(output_data.lines[i]) >= 1
                /\ Len(output_data.lines[i]) <= _width

\* A frame of several lines, one of which starts with a space, drawn from
\* a session with a tab among its pending errors.
C14_Witness ==
    /\ output_data # None
    /\ Len(output_data.lines) >= 2
    /\ \E i \in 2..Len(output_data.lines) : output_data.lines[i][1] = 32
    /\ \E i \in 1..Len(_errors) : _errors[i] = 9
    /\ _success # <<>>

\* ------------------------------------------------------------------ C16
\* C16 as stated: in every frame the characters before index
\* len(completed) are muted, those of the pending errors are alert, the
\* others have no colour, and exactly one character is underlined: the
\* last pending error when there is one, otherwise the head of remaining.
C16_Original ==
    output_data # None
    => LET st == styles(output_data)
           c == Len(_success)
           e == Len(_errors)
       IN /\ \A i \in 1..Len(st) :
                st[i].colour = IF i <= c THEN "muted"
                               ELSE IF i <= c + e THEN "alert" ELSE "none"
          /\ Cardinality({i \in 1..Len(st) : st[i].underline}) = 1
          /\ st[IF e > 0 THEN c + e ELSE c + 1].underline

\* C16 amended: the colours are as stated; while remaining is not empty
\* exactly one character is underlined, the last pending error when there
\* is one and otherwise the head of remaining; in the frame of a completed
\* session (remaining empty, no pending error) every character is muted
\* and none is underlined.
C16_Amended ==
    output_data # None
    => LET st == styles(output_data)
           c == Len(_success)
           e == Len(_errors)
           underlined == {i \in 1..Len(st) : st[i].underline}
       IN /\ Len(st) = c + e + Len(_remain)
          /\ \A i \in 1..Len(st) :
                st[i].colour = IF i <= c THEN "muted"
                               ELSE IF i <= c + e THEN "alert" ELSE "none"
          /\ _remain # <<>>
                => underlined = {IF e > 0 THEN c + e ELSE c + 1}
          /\ _remain = <<>> => (e = 0 /\ underlined = {})

\* The frame of a session with two pending errors after a completed
\* character: the second error is the underlined one.
C16_Witness ==
    /\ output_data # None
    /\ Len(_success) >= 1
    /\ Len(_errors) = 2
    /\ styles(output_data)[Len(_success) + 2].underline
    /\ styles(output_data)[Len(_success) + 2].colour = "alert"

previous_render ==
    IF screen = None \/ screen.output_data = None THEN 0
    ELSE 2 + Len(screen.output_data.lines)

\* C17 as stated: a keystroke repaint whose line count is that of the frame
\* on the terminal blanks exactly the rows of that frame and issues no full
\* clear; a full clear is chosen only when the new frame has fewer rows
\* than the terminal and the line count is not that of the frame on the
\* terminal.
C17_Original ==
    [][refresh_clear
          => /\ (ret = "while" /\ _lines = previous_render)
                   => (/\ clear_data'.kind = "cover"
                       /\ clear_data'.lines = previous_render)
             /\ clear_data'.kind = "clear"
                   => (/\ 2 + Len(output_data.lines) < _height
                       /\ _lines # previous_render)]_vars

\* C17 amended: every repaint, of the main thread or of the resize handler,
\* blanks exactly as many rows as the stored line count says when that
\* count is below the terminal's height, each over the margin and the
\* display width, and issues a full clear instead whenever the count is at
\* least the height, a keystroke repaint whose line count is that of the
\* frame on the terminal included; what is written is what was chosen.
C17_Amended ==
    [][/\ refresh_clear
             => IF _lines < _height
                THEN /\ clear_data'.kind = "cover"
                     /\ clear_data'.lines = _lines
                     /\ clear_data'.cover = _pad + _width
                ELSE clear_data'.kind = "clear"
       /\ refresh_write => screen'.clear_data = clear_data
       /\ (pc' = pc /\ Resize)
             => IF _lines < _height'
                THEN /\ screen'.clear_data.kind = "cover"
                     /\ screen'.clear_data.lines = _lines
                     /\ screen'.clear_data.cover = _pad' + _width'
                ELSE screen'.clear_data.kind = "clear"]_vars

\* A keystroke repaint whose line count is that of the frame on the
\* terminal has written a full clear, and the frame it wrote has more rows
\* than the terminal.
C17_Witness ==
    /\ pc = "refresh_store"
    /\ ret = "while"
    /\ count_raw > 0
    /\ screen.clear_data.kind = "clear"
    /\ 2 + Len(screen.output_data.lines) >= _height
    /\ _lines >= _height

\* ------------------------------------------------------------------ C20
\* C20: whenever the main thread is at the loop's test or in its read, so
\* that no repaint and no handler is under way, the stored line count is
\* the number of rows of the frame last written, and no row below that
\* frame holds text.
C20_LineCount ==
    (pc \in {"while", "read"} /\ screen # None /\ screen.output_data # None)
    => /\ _lines = 2 + Len(screen.output_data.lines)
       /\ rows <= 2 + Len(screen.output_data.lines)

\* ------------------------------------------------------------------ C18
\* C18: completed never gets shorter, and a session whose loop is running
\* always comes to the end of the loop with remaining empty, whatever was
\* typed before, once the user keeps supplying the backspaces owed and
\* then the characters of remaining.
C18_Completes ==
    /\ [][Len(_success') >= Len(_success)]_vars
    /\ in_loop ~> (pc = "metrics" /\ _remain = <<>> /\ _errors = <<>>)

\* A session has ended its loop after two mistyped keys were taken back.
C18_Witness ==
    /\ pc = "metrics"
    /\ _remain = <<>>
    /\ _success = target
    /\ Len(target) >= 3
    /\ count_raw >= _len + 2

\* ------------------------------------------------------------------ C19
\* C19: completed followed by remaining is the target text after every
\* step; the target, once drawn, never changes; completed only grows, at
\* its end; and a step that leaves completed as it is (an error recorded
\* or taken back, an ignored input, a resize) leaves remaining as it is.
C19_TargetSplit ==
    [][/\ _success' \o _remain' = target'
       /\ _len' = Len(target')
       /\ target # <<>> => target' = target
       /\ Len(_success') >= Len(_success)
       /\ SubSeq(_success', 1, Len(_success)) = _success
       /\ (_success' = _success /\ target # <<>>) => _remain' = _remain]_vars

\* Mid-text, the loop is about to read with one error pending after an
\* earlier one was taken back, on a terminal that was resized.
C19_Witness ==
    /\ pc = "read"
    /\ _success # <<>>
    /\ _remain # <<>>
    /\ Len(_errors) = 1
    /\ count_raw >= Len(_success) + 2
    /\ screen.output_data # None
    /\ screen.output_data.pad = _pad
    /\ screen.clear_data.kind = "cover"
    /\ screen.clear_data.cover # _cover

====
